---- MODULE Spec2Model ----
(***************************************************************************)
(* Exosky constellation viewer (src/main.py): the MainWindow class.        *)
(*                                                                         *)
(* The directory of XML files is the environment; the window keeps a list  *)
(* of descriptors (constelaciones) and a list of buttons; a click on a     *)
(* button re-reads the file, converts the star to Cartesian coordinates    *)
(* and shows a figure.                                                     *)
(*                                                                         *)
(* Numbers.  A numeric text is modelled by its whitespace-separated tokens *)
(* (what str.split() yields); a token is either not a number or an integer *)
(* written with or without a minus sign, so that "-0" and "0" are distinct *)
(* texts with the same value.  Angles are kept exactly, in arcseconds.     *)
(* math.sin and math.cos are modelled in fixed point (unit 1/Scale) by a   *)
(* 15-degree table with linear interpolation rounded away from zero, which *)
(* keeps the sign and the zeros of the real functions.                     *)
(***************************************************************************)
EXTENDS Integers, Sequences, FiniteSets, TLC

VARIABLES
    fs,             \* the directory: entry name -> file content
    pc,             \* position in MainWindow.__init__ / the event loop
    constelaciones, \* self.constelaciones
    buttons,        \* self.buttons (label and the path bound in the lambda)
    out,            \* lines printed by the last operation
    click,          \* what the last button click did
    convArgs,       \* arguments of a direct call of convert_to_cartesian
    convRes         \* its result

vars == <<fs, pc, constelaciones, buttons, out, click, convArgs, convRes>>

----------------------------------------------------------------------------
(* Bounds *)

\* largest quarter-turn multiple used for the leading angle token
MaxQ == 2
\* largest distance magnitude
MaxDist == 2

----------------------------------------------------------------------------
(* Texts and tokens *)

Num(n) == [num |-> TRUE, neg |-> n < 0, mag |-> IF n < 0 THEN -n ELSE n]
\* the text "-0"
MinusZero == [num |-> TRUE, neg |-> TRUE, mag |-> 0]
\* a token float() rejects, such as "abc"
Bad == [num |-> FALSE, neg |-> FALSE, mag |-> 0]

\* element text: None (an empty element) or a string; the text of a numeric
\* element is kept as its tokens, the text of <name> as a string
NoneText == [none |-> TRUE, str |-> <<>>]
NoneName == [none |-> TRUE, str |-> ""]
Text(s) == [none |-> FALSE, str |-> s]

\* a child element of the root: absent, or present with a text
Absent == [present |-> FALSE, text |-> NoneText]
AbsentName == [present |-> FALSE, text |-> NoneName]
Elem(t) == [present |-> TRUE, text |-> t]

\* float(token)
FloatOfToken(t) == IF t.neg THEN 0 - t.mag ELSE t.mag

----------------------------------------------------------------------------
(* The directory *)

\* the folder handed to MainWindow
xml_folder == "BaseDatos/systems"

\* directory entries, as the characters of their names
FileA == <<"a", ".", "x", "m", "l">>
FileB == <<"b", ".", "x", "m", "l">>
FileT == <<"n", ".", "t", "x", "t">>
DirEntries == {FileA, FileB, FileT}

\* a well-formed XML document, by the children of its root that are read
Xml(n, ra, dec, d) ==
    [exists |-> TRUE, parses |-> TRUE, name |-> n, rightascension |-> ra,
     declination |-> dec, distance |-> d]
\* no such file (never created, or removed)
Missing ==
    [exists |-> FALSE, parses |-> FALSE, name |-> AbsentName, rightascension |-> Absent,
     declination |-> Absent, distance |-> Absent]
\* a file ET.parse rejects
Unparsable ==
    [exists |-> TRUE, parses |-> FALSE, name |-> AbsentName, rightascension |-> Absent,
     declination |-> Absent, distance |-> Absent]

Zeros == Elem(Text(<<Num(0), Num(0), Num(0)>>))
One == Elem(Text(<<Num(1)>>))
Orion == Elem(Text("Orion"))
Lyra == Elem(Text("Lyra"))

\* the <name> children tried with a well-formed star
NameCases == {AbsentName, Elem(NoneName), Orion, Lyra}

\* the (rightascension, declination, distance) children tried under a name
StarCases ==
    { <<Zeros, Zeros, One>>,
      <<Elem(Text(<<Num(6), Num(0), Num(0)>>)),
        Elem(Text(<<Num(-45), Num(0), Num(0)>>)), Elem(Text(<<Num(2)>>))>>,
      <<Absent, Zeros, One>>,
      <<Zeros, Absent, One>>,
      <<Zeros, Zeros, Absent>>,
      <<Zeros, Zeros, Elem(NoneText)>>,
      <<Zeros, Zeros, Elem(Text(<<Bad>>))>>,
      <<Zeros, Zeros, Elem(Text(<<Num(1), Num(2)>>))>>,
      <<Zeros, Zeros, Elem(Text(<<Num(-1)>>))>>,
      <<Elem(NoneText), Zeros, One>>,
      <<Elem(Text(<<Num(1), Num(2)>>)), Zeros, One>>,
      <<Zeros, Elem(Text(<<Bad, Num(0), Num(0)>>)), One>>,
      <<Zeros, Elem(Text(<<Num(0), Num(0), Num(0), Num(0)>>)), One>> }

FileContents ==
    {Missing, Unparsable}
    \cup {Xml(n, Zeros, Zeros, One) : n \in NameCases}
    \cup {Xml(Orion, c[1], c[2], c[3]) : c \in StarCases}

\* the contents tried for an entry: every case for a.xml, the cases of the
\* scan and one malformed star for b.xml, a valid document or nothing for n.txt
ContentsOf(f) ==
    IF f = FileA THEN FileContents
    ELSE IF f = FileB
    THEN {Missing, Unparsable}
         \cup {Xml(n, Zeros, Zeros, One) : n \in NameCases \ {Orion}}
         \cup {Xml(Orion, Elem(Text(<<Num(1), Num(2)>>)), Zeros, One)}
    ELSE {Missing, Xml(Lyra, Zeros, Zeros, One)}

\* str.endswith
endswith(s, suffix) ==
    /\ Len(s) >= Len(suffix)
    /\ SubSeq(s, Len(s) - Len(suffix) + 1, Len(s)) = suffix

\* os.path.join(folder, file)
os_path_join(folder, file) == [folder |-> folder, file |-> file]

\* ET.parse(path).getroot(): the document, or an exception
ParseRaises(dir, path) == ~dir[path.file].exists \/ ~dir[path.file].parses
Root(dir, path) == dir[path.file]

----------------------------------------------------------------------------
(* XML loader *)

\* a line written to standard output
Line(kind, path) == [kind |-> kind, path |-> path]

\* get_name_from_xml: the value returned (NoneName for None) and what it prints
get_name_from_xml(dir, path) ==
    IF ParseRaises(dir, path)
    THEN [value |-> NoneName, log |-> <<Line("Error reading the file", path)>>]
    ELSE IF Root(dir, path).name.present
    THEN [value |-> Root(dir, path).name.text, log |-> <<>>]
    ELSE [value |-> NoneName, log |-> <<Line("No <name> tag found", path)>>]

\* truth value of a str-or-None
Truthy(text) == ~text.none /\ text.str # ""

\* ".xml"
XmlSuffix == <<".", "x", "m", "l">>

\* LoadStep without the test of line 60: a descriptor for whatever was returned
LoadStep_NoNameCheck(dir, xml_file, acc) ==
    LET path == os_path_join(xml_folder, xml_file)
        got == get_name_from_xml(dir, path)
    IN IF endswith(xml_file, XmlSuffix)
       THEN [list |-> Append(acc.list, [name |-> got.value.str, path |-> path]),
             log |-> acc.log \o got.log]
       ELSE acc

\* one turn of the loop of load_constellations (lines 58-61)
LoadStep(dir, xml_file, acc) ==
    LET path == os_path_join(xml_folder, xml_file)
        got == get_name_from_xml(dir, path)
    IN IF endswith(xml_file, XmlSuffix)
       THEN [list |-> IF Truthy(got.value)
                      THEN Append(acc.list, [name |-> got.value.str, path |-> path])
                      ELSE acc.list,
             log |-> acc.log \o got.log]
       ELSE acc

\* load_constellations, over the entries os.listdir returned, from the lists so far
RECURSIVE load_constellations(_, _, _)
load_constellations(dir, listing, acc) ==
    IF listing = <<>> THEN acc
    ELSE load_constellations(dir, Tail(listing), LoadStep(dir, Head(listing), acc))

\* generate_buttons with a lambda that reads the loop variable when called:
\* every button opens the last descriptor's path
generate_buttons_LateBinding(list) ==
    [i \in 1..Len(list) |-> [text |-> list[i].name, path |-> list[Len(list)].path]]

\* generate_buttons: the lambda of each button binds the path of its own
\* descriptor as a default argument
generate_buttons(list) ==
    [i \in 1..Len(list) |-> [text |-> list[i].name, path |-> list[i].path]]

\* float(text) raises: the element has no text, or the text is not one number
FloatRaises(text) ==
    text.none \/ Len(text.str) # 1 \/ ~text.str[1].num

\* what extract_constellation_data returns on failure
NoData == [ok |-> FALSE, stars |-> <<>>]

\* extract_constellation_data: the list returned (NoData for None) and what it prints
extract_constellation_data(dir, path) ==
    LET root == Root(dir, path)
        raises ==
            \/ ParseRaises(dir, path)
            \/ ~root.name.present
            \/ ~root.rightascension.present
            \/ ~root.declination.present
            \/ ~root.distance.present
            \/ FloatRaises(root.distance.text)
    IN IF raises
       THEN [data |-> NoData, log |-> <<Line("Error extracting data", path)>>]
       ELSE [data |-> [ok |-> TRUE,
                       stars |-> << [name |-> root.name.text,
                                     rightascension |-> root.rightascension.text,
                                     declination |-> root.declination.text,
                                     distance |-> FloatOfToken(root.distance.text.str[1])] >>],
             log |-> <<>>]

----------------------------------------------------------------------------
(* Coordinate transform *)

\* fixed-point unit of a sine or cosine
Scale == 1000
\* arcseconds in 15 degrees, in a quarter turn and in a full turn
Step == 54000
Quarter == 324000
Turn == 1296000

\* Scale * sin(15 k degrees), k = 0..6
SinTable == <<0, 259, 500, 707, 866, 966, 1000>>

\* Scale * sin of q arcseconds, 0 <= q <= Quarter: non-zero unless q = 0
SinQuarter(q) ==
    LET i == q \div Step
        r == q % Step
    IN IF r = 0 THEN SinTable[i + 1]
       ELSE SinTable[i + 1]
            + ((SinTable[i + 2] - SinTable[i + 1]) * r + Step - 1) \div Step

\* Scale * sin of a arcseconds, a >= 0
SinPos(a) ==
    LET r == a % Turn
    IN IF r <= Quarter THEN SinQuarter(r)
       ELSE IF r <= 2 * Quarter THEN SinQuarter(2 * Quarter - r)
       ELSE IF r <= 3 * Quarter THEN 0 - SinQuarter(r - 2 * Quarter)
       ELSE 0 - SinQuarter(Turn - r)

\* math.sin(math.radians(.)) and math.cos(math.radians(.)) of an angle in arcseconds
Sin(a) == IF a < 0 THEN 0 - SinPos(0 - a) ELSE SinPos(a)
Cos(a) == IF a < 0 THEN SinPos(Quarter - a) ELSE SinPos(Quarter + a)

\* a, b, c = map(float, text.split()) raises
UnpackRaises(text) ==
    \/ text.none
    \/ Len(text.str) # 3
    \/ \E i \in 1..Len(text.str) : ~text.str[i].num

\* ra_degrees without the 15 degrees per hour
RaDegrees_NoHourScale(text) ==
    FloatOfToken(text.str[1]) * 3600 + FloatOfToken(text.str[2]) * 60
    + FloatOfToken(text.str[3])

\* ra_degrees (line 141), in arcseconds
RaDegrees(text) ==
    15 * (FloatOfToken(text.str[1]) * 3600 + FloatOfToken(text.str[2]) * 60
          + FloatOfToken(text.str[3]))

Abs(n) == IF n < 0 THEN 0 - n ELSE n

\* sign (line 142): float("-0") is -0.0, which is not < 0
DecSign(dec_d) == IF dec_d < 0 THEN 0 - 1 ELSE 1

\* dec_degrees (line 143), in arcseconds
DecDegrees(text) ==
    DecSign(FloatOfToken(text.str[1]))
    * (Abs(FloatOfToken(text.str[1])) * 3600 + FloatOfToken(text.str[2]) * 60
       + FloatOfToken(text.str[3]))

\* the result of a call that raised
Raised == [raised |-> TRUE, x |-> 0, y |-> 0, z |-> 0]

\* convert_to_cartesian: x, y and z in units of 1/Scale^2, or an exception
convert_to_cartesian(right_ascension, declination, distance) ==
    IF UnpackRaises(right_ascension) \/ UnpackRaises(declination) THEN Raised
    ELSE
        LET ra == RaDegrees(right_ascension)
            dec == DecDegrees(declination)
        IN [raised |-> FALSE,
            x |-> distance * Cos(dec) * Cos(ra),
            y |-> distance * Cos(dec) * Sin(ra),
            z |-> distance * Sin(dec) * Scale]

----------------------------------------------------------------------------
(* Presentation layer *)

\* the Earth trace added to every figure (lines 176-182)
EarthTrace == [x |-> <<0>>, y |-> <<0>>, z |-> <<0>>, text |-> <<"Earth">>]

\* no figure
NoFigure ==
    [stars |-> [x |-> <<>>, y |-> <<>>, z |-> <<>>, text |-> <<>>],
     earth |-> [x |-> <<>>, y |-> <<>>, z |-> <<>>, text |-> <<>>]]

\* the star loop of draw_constellation (lines 159-164): the four lists, or an
\* exception of convert_to_cartesian
RECURSIVE StarLoop(_, _)
StarLoop(constellation, acc) ==
    IF constellation = <<>> \/ acc.raised THEN acc
    ELSE
        LET star == Head(constellation)
            p == convert_to_cartesian(star.rightascension, star.declination,
                                      star.distance)
        IN StarLoop(Tail(constellation),
                    IF p.raised THEN [acc EXCEPT !.raised = TRUE]
                    ELSE [raised |-> FALSE,
                          x |-> Append(acc.x, p.x),
                          y |-> Append(acc.y, p.y),
                          z |-> Append(acc.z, p.z),
                          text |-> Append(acc.text, star.name)])

\* draw_constellation: the figure shown, or an exception and no figure
draw_constellation(constellation) ==
    LET l == StarLoop(constellation,
                      [raised |-> FALSE, x |-> <<>>, y |-> <<>>, z |-> <<>>,
                       text |-> <<>>])
    IN IF l.raised THEN [raised |-> TRUE, shown |-> FALSE, fig |-> NoFigure]
       ELSE [raised |-> FALSE, shown |-> TRUE,
             fig |-> [stars |-> [x |-> l.x, y |-> l.y, z |-> l.z, text |-> l.text],
                      earth |-> EarthTrace]]

\* no click yet
NoClick ==
    [path |-> os_path_join(xml_folder, <<>>), data |-> NoData, raised |-> FALSE,
     shown |-> FALSE, fig |-> NoFigure, log |-> <<>>]

\* show_details_window keeping the star data of the last successful click
\* instead of reading the file again
show_details_window_Cached(dir, xml_path) ==
    LET got == IF click.data.ok THEN [data |-> click.data, log |-> <<>>]
               ELSE extract_constellation_data(dir, xml_path)
        drawn == draw_constellation(got.data.stars)
    IN IF got.data.ok
       THEN [path |-> xml_path, data |-> got.data, raised |-> drawn.raised,
             shown |-> drawn.shown, fig |-> drawn.fig, log |-> got.log]
       ELSE [path |-> xml_path, data |-> got.data, raised |-> FALSE,
             shown |-> FALSE, fig |-> NoFigure, log |-> got.log]

\* show_details_window: what one click does
show_details_window(dir, xml_path) ==
    LET got == extract_constellation_data(dir, xml_path)
        drawn == draw_constellation(got.data.stars)
    IN IF got.data.ok
       THEN [path |-> xml_path, data |-> got.data, raised |-> drawn.raised,
             shown |-> drawn.shown, fig |-> drawn.fig, log |-> got.log]
       ELSE [path |-> xml_path, data |-> got.data, raised |-> FALSE,
             shown |-> FALSE, fig |-> NoFigure, log |-> got.log]

----------------------------------------------------------------------------
(* The window *)

\* no direct call of convert_to_cartesian
NoArgs == [ra |-> NoneText, dec |-> NoneText, distance |-> 0]

\* the orders in which os.listdir can return the entries S
Orders(S) ==
    {o \in [1..Cardinality(S) -> S] : \A i, j \in 1..Cardinality(S) : o[i] = o[j] => i = j}

\* MainWindow.__init__ up to the call of setup_ui (lines 10-15), on any directory
Init ==
    /\ fs \in {d \in [DirEntries -> FileContents] : \A f \in DirEntries : d[f] \in ContentsOf(f)}
    /\ pc = "load"
    /\ constelaciones = <<>>
    /\ buttons = <<>>
    /\ out = <<>>
    /\ click = NoClick
    /\ convArgs = NoArgs
    /\ convRes = Raised

\* setup_ui, line 41: load_constellations over os.listdir, in any order
LoadConstellations ==
    /\ pc = "load"
    /\ \E listing \in Orders({f \in DirEntries : fs[f].exists}) :
          LET r == load_constellations(fs, listing, [list |-> constelaciones, log |-> <<>>])
          IN /\ constelaciones' = r.list
             /\ out' = r.log
    /\ pc' = "buttons"
    /\ UNCHANGED <<fs, buttons, click, convArgs, convRes>>

\* setup_ui, line 42: generate_buttons
GenerateButtons ==
    /\ pc = "buttons"
    /\ buttons' = buttons \o generate_buttons(constelaciones)
    /\ out' = <<>>
    /\ pc' = "ready"
    /\ UNCHANGED <<fs, constelaciones, click, convArgs, convRes>>

\* the user clicks button i: the slot bound at line 81 runs
Click(i) ==
    /\ pc = "ready"
    /\ LET r == show_details_window(fs, buttons[i].path)
       IN /\ click' = r
          /\ out' = r.log
    /\ UNCHANGED <<fs, pc, constelaciones, buttons, convArgs, convRes>>

\* the entries a descriptor can name: the window reads no other file again
Openable == {f \in DirEntries : endswith(f, XmlSuffix)}

\* the environment rewrites, creates or removes such a file while the window is open
WriteFile(f, c) ==
    /\ pc = "ready"
    /\ fs[f] # c
    /\ fs' = [fs EXCEPT ![f] = c]
    /\ UNCHANGED <<pc, constelaciones, buttons, out, click, convArgs, convRes>>

Next ==
    \/ LoadConstellations
    \/ GenerateButtons
    \/ \E i \in 1..Len(buttons) : Click(i)
    \/ \E f \in Openable : \E c \in ContentsOf(f) : WriteFile(f, c)

Spec == Init /\ [][Next]_vars

----------------------------------------------------------------------------
(* convert_to_cartesian called on its own *)

\* the leading token of an angle: a multiple of 45 degrees (3 hours), written
\* with or without a minus sign
Leading == {Num(k) : k \in 0..(2 * MaxQ)}
Minutes == {Num(0), Num(30)}

\* right-ascension strings: "h m s", and strings that are not three numbers
RaTexts ==
    {Text(<<Num(3 * h.mag), m, s>>) : h \in Leading, m \in Minutes, s \in Minutes}
    \cup {NoneText, Text(<<>>), Text(<<Num(6), Num(0)>>),
          Text(<<Num(6), Num(0), Num(0), Num(0)>>), Text(<<Num(6), Bad, Num(0)>>)}

\* declination strings: "d m s" with d = 0, -0, 45, -45, ..., and strings that
\* are not three numbers
DecTexts ==
    {Text(<<[num |-> TRUE, neg |-> n, mag |-> 45 * d.mag], m, s>>) :
        n \in BOOLEAN, d \in {t \in Leading : t.mag <= MaxQ}, m \in Minutes, s \in Minutes}
    \cup {NoneText, Text(<<Num(0), Num(0)>>), Text(<<Bad, Num(0), Num(0)>>),
          Text(<<Num(0), Num(0), Num(0), Num(0)>>)}

Distances == (0 - MaxDist)..MaxDist

ConvInit ==
    /\ fs = [f \in DirEntries |-> Missing]
    /\ pc = "call"
    /\ constelaciones = <<>>
    /\ buttons = <<>>
    /\ out = <<>>
    /\ click = NoClick
    /\ convArgs \in [ra : RaTexts, dec : DecTexts, distance : Distances]
    /\ convRes = Raised

Convert ==
    /\ pc = "call"
    /\ convRes' = convert_to_cartesian(convArgs.ra, convArgs.dec, convArgs.distance)
    /\ pc' = "returned"
    /\ UNCHANGED <<fs, constelaciones, buttons, out, click, convArgs>>

ConvNext == Convert

ConvSpec == ConvInit /\ [][ConvNext]_vars

----------------------------------------------------------------------------
(* Claims *)

\* a button has been clicked
Clicked == click.path.file # <<>>

\* the file button i opens
FileOf(i) == fs[buttons[i].path.file]

\* C1: no failure propagates out of an operation: after any click no
\* exception has escaped, and a click that shows nothing has logged its error.
C1_NoFailurePropagates ==
    /\ ~click.raised
    /\ (Clicked /\ ~click.shown => click.log # <<>>)

HasNameElement(c) == c.exists /\ c.parses /\ c.name.present

\* the paths of the entries ending in ".xml" whose document has a <name>
NamedXml(dir) ==
    {os_path_join(xml_folder, f) :
        f \in {g \in DirEntries : g \in Openable /\ HasNameElement(dir[g])}}

Paths(list) == {list[i].path : i \in 1..Len(list)}

\* C2: right after load_constellations the descriptor list holds exactly one
\* descriptor for every ".xml" entry that has a <name> element, whatever its
\* text, and none for any other entry.
C2_OneDescriptorPerNamedXml ==
    pc = "buttons" =>
        /\ Paths(constelaciones) = NamedXml(fs)
        /\ Len(constelaciones) = Cardinality(NamedXml(fs))

\* C3: when no entry is a parsable ".xml" file with a <name>, the scan leaves
\* the descriptor list empty, and construction goes on to finish with no
\* descriptor and no button.
C3_NoValidXmlNoButtons ==
    /\ [](pc = "buttons" /\ NamedXml(fs) = {} => constelaciones = <<>>)
    /\ [][pc = "buttons" /\ NamedXml(fs) = {}
            => pc' = "ready" /\ constelaciones' = <<>> /\ buttons' = <<>>]_vars

\* C3 witness: the window is built over a directory that holds files, none of
\* them valid, and has no button.
C3_Witness ==
    /\ pc = "ready"
    /\ buttons = <<>>
    /\ NamedXml(fs) = {}
    /\ fs[FileA] = Unparsable
    /\ fs[FileB].parses /\ ~fs[FileB].name.present
    /\ fs[FileT].exists

\* a numeric element: it has a text, and every token of the text is a number
NumericField(e) ==
    /\ e.present
    /\ ~e.text.none
    /\ e.text.str # <<>>
    /\ \A k \in 1..Len(e.text.str) : e.text.str[k].num

\* the four fields are there, and the three numeric ones are numeric
AllFieldsNumeric(c) ==
    /\ HasNameElement(c)
    /\ NumericField(c.rightascension)
    /\ NumericField(c.declination)
    /\ NumericField(c.distance)

\* C4: a click's extract_constellation_data returns a star record exactly
\* when the file has the four fields with rightascension, declination and
\* distance numeric, and the failure value otherwise.
C4_ExtractFailsOnAbsentOrNonNumeric ==
    [][\A i \in 1..Len(buttons) :
          Click(i) => (click'.data.ok <=> AllFieldsNumeric(FileOf(i)))]_vars

\* exactly three numeric tokens
ThreeNumbers(text) == ~UnpackRaises(text)

\* C7: every star record extract_constellation_data returned has a
\* non-negative distance and angle strings of exactly three numeric tokens.
C7_RecordInvariants ==
    click.data.ok =>
        \A k \in 1..Len(click.data.stars) :
            /\ click.data.stars[k].distance >= 0
            /\ ThreeNumbers(click.data.stars[k].rightascension)
            /\ ThreeNumbers(click.data.stars[k].declination)

\* C8: a click shows a figure exactly when its extraction succeeded, and the
\* figure holds one point per extracted record, the transform of that
\* record, plus the one Earth marker at the origin.
C8_PlotIffExtracted ==
    /\ click.shown <=> click.data.ok
    /\ click.shown =>
          /\ Len(click.fig.stars.x) = Len(click.data.stars)
          /\ Len(click.data.stars) = 1
          /\ \A k \in 1..Len(click.data.stars) :
                LET star == click.data.stars[k]
                    p == convert_to_cartesian(star.rightascension, star.declination,
                                              star.distance)
                IN <<click.fig.stars.x[k], click.fig.stars.y[k], click.fig.stars.z[k]>>
                       = <<p.x, p.y, p.z>>
          /\ click.fig.earth = EarthTrace

\* C9: once the window is built there is one button per descriptor, in the
\* same order, labelled with its descriptor's name, and a click on button i
\* opens the path of descriptor i.
C9_ButtonsMatchDescriptors ==
    /\ [](pc = "ready" =>
            /\ Len(buttons) = Len(constelaciones)
            /\ \A i \in 1..Len(buttons) : buttons[i].text = constelaciones[i].name)
    /\ [][\A i \in 1..Len(buttons) :
            Click(i) => click'.path = constelaciones[i].path]_vars

\* C9 witness: two buttons with different labels, the first one clicked and
\* its own file drawn.
C9_Witness ==
    /\ pc = "ready"
    /\ Len(buttons) = 2
    /\ buttons[1].text # buttons[2].text
    /\ click.path = constelaciones[1].path
    /\ click.path # constelaciones[2].path
    /\ click.shown

\* the figure of the document Xml(Orion, Zeros, Zeros, One)
UnitFigure ==
    [stars |-> [x |-> <<Scale * Scale>>, y |-> <<0>>, z |-> <<0>>,
                text |-> <<Orion.text>>],
     earth |-> EarthTrace]

Sign(n) == IF n < 0 THEN 0 - 1 ELSE IF n > 0 THEN 1 ELSE 0

\* C5: the composed declination carries the sign written on the degree token:
\* for "d m s" with a minus sign on d (also "-0 m s") it is -(|d| + m/60 +
\* s/3600), and z then has the sign opposite to the distance's; without a
\* minus sign it is d + m/60 + s/3600.
C5_DeclinationSignPreserved ==
    pc = "returned" /\ ThreeNumbers(convArgs.ra) /\ ThreeNumbers(convArgs.dec) =>
        LET t == convArgs.dec.str
            mag == t[1].mag * 3600 + FloatOfToken(t[2]) * 60 + FloatOfToken(t[3])
        IN IF t[1].neg
           THEN /\ DecDegrees(convArgs.dec) = 0 - mag
                /\ (mag # 0 /\ mag < 2 * Quarter
                      => Sign(convRes.z) = 0 - Sign(convArgs.distance))
           ELSE DecDegrees(convArgs.dec) = mag

\* three numeric tokens, all of value zero
ZeroAngle(text) ==
    ThreeNumbers(text) /\ \A k \in 1..3 : FloatOfToken(text.str[k]) = 0

\* the unit vector of the x-y plane after k quarter turns from the x axis
QuarterTurns(k) ==
    IF k % 4 = 0 THEN <<1, 0>>
    ELSE IF k % 4 = 1 THEN <<0, 1>>
    ELSE IF k % 4 = 2 THEN <<0 - 1, 0>>
    ELSE <<0, 0 - 1>>

====
